---- MODULE Spec2Model ----
(* Camera session manager of src/main.py: the four module globals, the     *)
(* operations start_webcam / stop_webcam / get_webcam_frame /               *)
(* check_camera_permissions, and the capture device they talk to.  Each     *)
(* operation is one atomic action (the Gradio handlers are modelled as      *)
(* serialized calls); the capture device is an adversary that picks the      *)
(* outcome of every call (fail, succeed, raise, which frame).               *)
EXTENDS Integers, Sequences, FiniteSets, TLC

\* the four module globals of lines 10-13
VARIABLES camera, is_running, last_frame, error_message
\* what the last operation did: its name, the image it returned, whether it
\* raised past its caller, the list it returned (check_camera_permissions),
\* the device calls it made, the device frame its last used read delivered and
\* what its call of initialize_camera returned ("none" when it made none)
VARIABLES op, ret, raised, avail, log, delivered, init_ret
\* history: whether start was called since the last stop, and whether the
\* last probe loop adopted a handle
VARIABLES started, acquired
\* one call of create_error_image on its own: the text it is given, as
\* characters, and the image it returns
VARIABLES arg_text, error_image

\* overlapping calls, statement by statement: where each worker thread of the
\* UI stands (a line of main.py, or "idle"), its locals camera_index (a
\* position in CameraIndices) and test_camera (a device index, -1 for none),
\* and whether the object the camera global refers to was released
VARIABLES pc, camera_index, test_camera, cam_released
\* history: whether a thread's current start() assigned the camera global,
\* and what the latest read of the global found ("none": a live handle)
VARIABLES adopted, stale

render_vars == <<arg_text, error_image>>
conc_vars == <<pc, camera_index, test_camera, cam_released, adopted, stale>>
\* what an atomic call records about itself
call_vars == <<op, ret, raised, avail, log, delivered, init_ret, started, acquired>>

\* what the four operations of the session leave alone
other_vars == <<render_vars, conc_vars>>

vars == <<camera, is_running, last_frame, error_message,
          op, ret, raised, avail, log, delivered, init_ret, started, acquired,
          arg_text, error_image,
          pc, camera_index, test_camera, cam_released, adopted, stale>>

(* ------------------------------ bounds ---------------------------------- *)
\* number of distinct frame contents the device can deliver
NumPixels == 2
\* longest text, in characters, handed to create_error_image on its own
MaxChars == 8
\* number of UI worker threads whose calls may overlap
NumThreads == 2
\* largest value the device reports for CAP_PROP_BUFFERSIZE
MaxDepth == 3

(* -------------------------- program constants --------------------------- *)
ImgWidth == 640
ImgHeight == 480
ImgChannels == 3
MaxLineIndex == 6
TextLeft == 20
TextTop == 50
LineStep == 40
TargetFps == 30
TargetBuffer == 1
NumProbed == 3

CameraIndices == <<0, 1, 2>>

\* the settings initialize_camera applies, in order
Config == << [prop |-> "FRAME_WIDTH", val |-> ImgWidth],
             [prop |-> "FRAME_HEIGHT", val |-> ImgHeight],
             [prop |-> "FPS", val |-> TargetFps],
             [prop |-> "BUFFERSIZE", val |-> TargetBuffer] >>

(* ------------------------------ values ---------------------------------- *)
\* Python None for the camera global
NoCamera == [idx |-> -1, cfg |-> <<>>]
\* Python None for error_message (a message is a sequence of lines, a line a
\* sequence of string fragments)
NoMessage == <<>>
\* no image: what the caller holds when an operation raised
NoImage == [kind |-> "none", w |-> 0, h |-> 0, ch |-> 0, order |-> "none",
            px |-> 0, text |-> <<>>]

\* sizes the device may deliver (a set() request is only a request)
FrameSizes == { <<ImgWidth, ImgHeight>>, <<1280, 720>> }

\* frames as cv2.VideoCapture.read delivers them: 3-channel, BGR order
DeviceFrames ==
    { [kind |-> "frame", w |-> s[1], h |-> s[2], ch |-> ImgChannels,
       order |-> "BGR", px |-> p, text |-> <<>>] :
         s \in FrameSizes, p \in 1..NumPixels }

\* cv2.cvtColor(frame, cv2.COLOR_BGR2RGB): same size, channel order swapped
cvtColor(frame) == [frame EXCEPT !.order = "RGB"]

\* the text of a caught exception, str(e)
ExcText == << <<"exc">> >>

\* f"{prefix}{str(e)}": the prefix is glued to the first line of str(e)
Prefixed(prefix, text) ==
    << <<prefix>> \o Head(text) >> \o Tail(text)

NoWorkingCamera ==
    << <<"No working camera found. Possible issues:">>,
       <<"1. Camera is being used by another application">>,
       <<"2. Camera drivers not installed">>,
       <<"3. Camera permissions denied">>,
       <<"4. No camera connected">> >>

InitErrorMsg == Prefixed("Camera initialization error: ", ExcText)
InitFailedMsg == << <<"Camera initialization failed">> >>
CannotReadMsg == << <<"Camera opened but cannot read frames">> >>
StartReadErrorMsg == Prefixed("Error reading from camera: ", ExcText)
NotInitializedMsg == << <<"Camera not initialized">> >>
FailedReadMsg == << <<"Failed to read frame from camera">> >>
PollErrorMsg == Prefixed("Error getting webcam frame: ", ExcText)

\* the startup frame: black 640x480 with one line of text at (50, 240)
Placeholder ==
    [kind |-> "placeholder", w |-> ImgWidth, h |-> ImgHeight,
     ch |-> ImgChannels, order |-> "RGB", px |-> 0,
     text |-> << [line |-> <<"Press 'Start Webcam' to begin">>,
                  x |-> 50, y |-> 240] >>]

\* a loop that breaks one line later, at the first i > 7
RECURSIVE DrawLines_eight(_, _)
DrawLines_eight(lines, i) ==
    IF lines = <<>> \/ i > MaxLineIndex + 1 THEN <<>>
    ELSE << [line |-> Head(lines), x |-> TextLeft, y |-> TextTop + LineStep * i] >>
         \o DrawLines_eight(Tail(lines), i + 1)

\* the loop of create_error_image: line i (from 0) is drawn at (20, 50 + 40*i)
\* and the loop breaks at the first i > 6
RECURSIVE DrawLines(_, _)
DrawLines(lines, i) ==
    IF lines = <<>> \/ i > MaxLineIndex THEN <<>>
    ELSE << [line |-> Head(lines), x |-> TextLeft, y |-> TextTop + LineStep * i] >>
         \o DrawLines(Tail(lines), i + 1)

\* an error image whose loop breaks after four lines
create_error_image_four(error_text) ==
    [kind |-> "error", w |-> ImgWidth, h |-> ImgHeight, ch |-> ImgChannels,
     order |-> "RGB", px |-> 0,
     text |-> DrawLines(SubSeq(error_text, 1, IF Len(error_text) < 4
                                               THEN Len(error_text) ELSE 4), 0)]

create_error_image(error_text) ==
    [kind |-> "error", w |-> ImgWidth, h |-> ImgHeight, ch |-> ImgChannels,
     order |-> "RGB", px |-> 0, text |-> DrawLines(error_text, 0)]

\* error_text.split('\n') of line 30 on a text given as characters: a line
\* ends at each newline, so a text with k newlines has k + 1 lines and the
\* empty text has one empty line; cur is the line being collected
RECURSIVE SplitFrom(_, _)
SplitFrom(chars, cur) ==
    IF chars = <<>> THEN <<cur>>
    ELSE IF Head(chars) = "\n" THEN <<cur>> \o SplitFrom(Tail(chars), <<>>)
    ELSE SplitFrom(Tail(chars), Append(cur, Head(chars)))

SplitLines(chars) == SplitFrom(chars, <<>>)

(* --------------------------- device accesses ---------------------------- *)
\* one call on the capture device, as recorded in the log of an operation
Ev(call, idx, res, prop, val) ==
    [call |-> call, idx |-> idx, res |-> res, prop |-> prop, val |-> val]

\* cv2.VideoCapture(index) or, on Windows, cv2.VideoCapture(index, cv2.CAP_DSHOW):
\* the backend hint is fixed for the life of the process and changes no branch
OpenEv(idx, res) == Ev("open", idx, res, "none", 0)
IsOpenedEv(idx, res) == Ev("isOpened", idx, res, "none", 0)
ReadEv(idx, res) == Ev("read", idx, res, "none", 0)
ReleaseEv(idx, res) == Ev("release", idx, res, "none", 0)
SetEv(idx, k, res) == Ev("set", idx, res, Config[k].prop, Config[k].val)
GetEv(idx, res, val) == Ev("get", idx, res, "BUFFERSIZE", val)

\* the first n set() calls of the configuration on handle idx, all returning
SetEvs(idx, n) == [k \in 1..n |-> SetEv(idx, k, "ok")]

(* --------------------------- initialize_camera -------------------------- *)
\* what one run of initialize_camera leaves behind: the camera and
\* error_message globals, its return value, whether it raised, its accesses
InitResult(cam, err, ok, rs, lg) ==
    [camera |-> cam, error_message |-> err, ok |-> ok, raised |-> rs, log |-> lg]

\* the except clause of initialize_camera: error_message is set, False returned
InitCaught(cam, lg) == InitResult(cam, InitErrorMsg, FALSE, FALSE, lg)

\* lines 59-69: the probed handle is adopted, then configured; n = 0 when all
\* four set() calls return, n = k when the k-th one raises
Adopt(idx, n, lg) ==
    IF n = 0
    THEN InitResult([idx |-> idx, cfg |-> Config], NoMessage, TRUE, FALSE,
                    lg \o SetEvs(idx, Len(Config)))
    ELSE InitCaught([idx |-> idx, cfg |-> SubSeq(Config, 1, n - 1)],
                    lg \o SetEvs(idx, n - 1) \o <<SetEv(idx, n, "raise")>>)

\* the for loop of lines 47-84 from position i of CameraIndices on, against
\* every behaviour of the devices; lg is the accesses made so far
RECURSIVE ProbeFrom(_, _)
ProbeFrom(i, lg) ==
    IF i > Len(CameraIndices)
    THEN { InitResult(NoCamera, NoWorkingCamera, FALSE, FALSE, lg) }
    ELSE LET idx == CameraIndices[i]
             o   == lg \o <<OpenEv(idx, "ok")>>
             io  == o \o <<IsOpenedEv(idx, "true")>>
             ic  == o \o <<IsOpenedEv(idx, "false")>>
         IN  \* the constructor or isOpened() raises
             { InitCaught(NoCamera, lg \o <<OpenEv(idx, "raise")>>),
               InitCaught(NoCamera, o \o <<IsOpenedEv(idx, "raise")>>) }
             \* not opened: released, next index (or release() raises)
             \cup { InitCaught(NoCamera, ic \o <<ReleaseEv(idx, "raise")>>) }
             \cup ProbeFrom(i + 1, ic \o <<ReleaseEv(idx, "ok")>>)
             \* opened, read() raises
             \cup { InitCaught(NoCamera, io \o <<ReadEv(idx, "raise")>>) }
             \* opened, read() gives ret False or frame None: released, next
             \cup { InitCaught(NoCamera, io \o <<ReadEv(idx, "fail"),
                                                 ReleaseEv(idx, "raise")>>) }
             \cup ProbeFrom(i + 1, io \o <<ReadEv(idx, "fail"), ReleaseEv(idx, "ok")>>)
             \* opened and a frame read: this index wins
             \cup { Adopt(idx, n, io \o <<ReadEv(idx, "ok")>>) : n \in 0..Len(Config) }

\* an initialize_camera without the "if camera is None" test
initialize_camera_reprobes(cam, err) == ProbeFrom(1, <<>>)

\* initialize_camera(): the probe loop when no handle is held, otherwise the
\* final return of line 91, whose isOpened() is outside the try block
initialize_camera(cam, err) ==
    IF cam = NoCamera
    THEN ProbeFrom(1, <<>>)
    ELSE { InitResult(cam, err, TRUE, FALSE, <<IsOpenedEv(cam.idx, "true")>>),
           InitResult(cam, err, FALSE, FALSE, <<IsOpenedEv(cam.idx, "false")>>),
           InitResult(cam, err, FALSE, TRUE, <<IsOpenedEv(cam.idx, "raise")>>) }

(* ------------------------------ start_webcam ---------------------------- *)
\* the outcomes of one camera.read(): it raises, it returns with ret False
\* or frame None ("fail"), or it returns a frame
ReadOutcomes ==
    { [res |-> "raise", frame |-> NoImage],
      [res |-> "fail", frame |-> NoImage] }
    \cup { [res |-> "ok", frame |-> f] : f \in DeviceFrames }

\* what an operation hands back: the returned image, the new last_frame,
\* whether it raised past its caller, the accesses it made, and the device
\* frame the image was made from (NoImage when it was made from none)
OpResult(img, last, rs, lg, dl) ==
    [ret |-> img, last_frame |-> last, raised |-> rs, log |-> lg, delivered |-> dl]

\* error_message or "Camera initialization failed"
MessageOr(err, default) == IF err = NoMessage THEN default ELSE err

\* a first read that keeps the error image it returns as last_frame
StartRead_stores_error(cam, last, lg, rd) ==
    LET lg2 == lg \o <<ReadEv(cam.idx, rd.res)>>
    IN  IF rd.res = "ok"
        THEN OpResult(cvtColor(rd.frame), cvtColor(rd.frame), FALSE, lg2, rd.frame)
        ELSE IF rd.res = "raise"
        THEN OpResult(create_error_image(StartReadErrorMsg), last, FALSE, lg2, NoImage)
        ELSE OpResult(create_error_image(CannotReadMsg),
                      create_error_image(CannotReadMsg), FALSE, lg2, NoImage)

\* a first read that returns its frame without storing it
StartRead_forgets(cam, last, lg, rd) ==
    LET lg2 == lg \o <<ReadEv(cam.idx, rd.res)>>
    IN  IF rd.res = "ok"
        THEN OpResult(cvtColor(rd.frame), last, FALSE, lg2, rd.frame)
        ELSE IF rd.res = "raise"
        THEN OpResult(create_error_image(StartReadErrorMsg), last, FALSE, lg2, NoImage)
        ELSE OpResult(create_error_image(CannotReadMsg), last, FALSE, lg2, NoImage)

\* lines 106-123: the first read after a successful initialize_camera
StartRead(cam, last, lg, rd) ==
    LET lg2 == lg \o <<ReadEv(cam.idx, rd.res)>>
    IN  IF rd.res = "ok"
        THEN OpResult(cvtColor(rd.frame), cvtColor(rd.frame), FALSE, lg2, rd.frame)
        ELSE IF rd.res = "raise"
        THEN OpResult(create_error_image(StartReadErrorMsg), last, FALSE, lg2, NoImage)
        ELSE OpResult(create_error_image(CannotReadMsg), last, FALSE, lg2, NoImage)

\* lines 100-123 for one run r of initialize_camera
StartResults(r, last) ==
    IF r.raised
    THEN { OpResult(NoImage, last, TRUE, r.log, NoImage) }
    ELSE IF ~r.ok
    THEN { OpResult(create_error_image(MessageOr(r.error_message, InitFailedMsg)),
                    last, FALSE, r.log, NoImage) }
    ELSE { StartRead(r.camera, last, r.log, rd) : rd \in ReadOutcomes }

start_webcam ==
    \E r \in initialize_camera(camera, error_message) :
    \E res \in StartResults(r, last_frame) :
        /\ is_running' = TRUE
        /\ camera' = r.camera
        /\ error_message' = r.error_message
        /\ last_frame' = res.last_frame
        /\ ret' = res.ret
        /\ raised' = res.raised
        /\ log' = res.log
        /\ delivered' = res.delivered
        /\ init_ret' = IF r.raised THEN "raised" ELSE IF r.ok THEN "True" ELSE "False"
        /\ op' = "start"
        /\ started' = TRUE
        /\ acquired' = IF camera = NoCamera THEN r.camera # NoCamera ELSE acquired
        /\ avail' = <<>>
        /\ UNCHANGED other_vars

(* ------------------------------ stop_webcam ----------------------------- *)
\* a stop that keeps its reference to the handle
Cleared_kept(cam) == cam

\* lines 138-139: finally: camera = None
Cleared(cam) == NoCamera

\* a stop that hands back no frame
StopReturn_none(last) == NoImage

\* line 141: return last_frame
StopReturn(last) == last

stop_webcam ==
    \E rel \in {"ok", "raise"} :
        /\ is_running' = FALSE
        /\ camera' = Cleared(camera)
        /\ IF camera # NoCamera
           THEN log' = <<ReleaseEv(camera.idx, rel)>>
           ELSE rel = "ok" /\ log' = <<>>
        /\ ret' = StopReturn(last_frame)
        /\ raised' = FALSE
        /\ op' = "stop"
        /\ started' = FALSE
        /\ avail' = <<>>
        /\ delivered' = NoImage
        /\ init_ret' = "none"
        /\ UNCHANGED <<last_frame, error_message, acquired>>
        /\ UNCHANGED other_vars

(* ---------------------------- get_webcam_frame -------------------------- *)
\* camera.get(cv2.CAP_PROP_BUFFERSIZE): raises, or the depth the device reports
GetOutcomes ==
    { [res |-> "raise", val |-> 0] } \cup { [res |-> "ok", val |-> d] : d \in 0..MaxDepth }

\* a final read that forgets last_frame when the read fails
FinalRead_resets(cam, last, lg, rd) ==
    LET lg2 == lg \o <<ReadEv(cam.idx, rd.res)>>
    IN  IF rd.res = "ok"
        THEN OpResult(cvtColor(rd.frame), cvtColor(rd.frame), FALSE, lg2, rd.frame)
        ELSE IF rd.res = "raise"
        THEN OpResult(create_error_image(PollErrorMsg), last, FALSE, lg2, NoImage)
        ELSE OpResult(create_error_image(FailedReadMsg), Placeholder, FALSE, lg2, NoImage)

\* a final read that falls back to last_frame when the read fails
FinalRead_returns_last(cam, last, lg, rd) ==
    LET lg2 == lg \o <<ReadEv(cam.idx, rd.res)>>
    IN  IF rd.res = "ok"
        THEN OpResult(cvtColor(rd.frame), cvtColor(rd.frame), FALSE, lg2, rd.frame)
        ELSE IF rd.res = "raise"
        THEN OpResult(create_error_image(PollErrorMsg), last, FALSE, lg2, NoImage)
        ELSE OpResult(last, last, FALSE, lg2, NoImage)

\* lines 160-173: the read whose frame is used
FinalRead(cam, last, lg, rd) ==
    LET lg2 == lg \o <<ReadEv(cam.idx, rd.res)>>
    IN  IF rd.res = "ok"
        THEN OpResult(cvtColor(rd.frame), cvtColor(rd.frame), FALSE, lg2, rd.frame)
        ELSE IF rd.res = "raise"
        THEN OpResult(create_error_image(PollErrorMsg), last, FALSE, lg2, NoImage)
        ELSE OpResult(create_error_image(FailedReadMsg), last, FALSE, lg2, NoImage)

\* n reads whose results are thrown away
Discarded(cam, n) == [k \in 1..n |-> ReadEv(cam.idx, "discarded")]

\* a drain that discards as many frames as the reported depth
DrainCount_all(depth) == depth

\* the number of iterations of range(int(depth) - 1)
DrainCount(depth) == IF depth - 1 > 0 THEN depth - 1 ELSE 0

\* lines 156-158: the for loop over a second get(); a read of it may raise
Drain(cam, last, lg) ==
    UNION { IF g.res = "raise"
            THEN { OpResult(create_error_image(PollErrorMsg), last, FALSE,
                            lg \o <<GetEv(cam.idx, "raise", 0)>>, NoImage) }
            ELSE LET lg2 == lg \o <<GetEv(cam.idx, "ok", g.val)>>
                     n   == DrainCount(g.val)
                 IN  { OpResult(create_error_image(PollErrorMsg), last, FALSE,
                                lg2 \o Discarded(cam, k - 1)
                                    \o <<ReadEv(cam.idx, "raise")>>, NoImage) : k \in 1..n }
                     \cup { FinalRead(cam, last, lg2 \o Discarded(cam, n), rd)
                            : rd \in ReadOutcomes }
          : g \in GetOutcomes }

\* lines 154-173: the try block of get_webcam_frame on a held handle
PollHeld(cam, last) ==
    UNION { IF g.res = "raise"
            THEN { OpResult(create_error_image(PollErrorMsg), last, FALSE,
                            <<GetEv(cam.idx, "raise", 0)>>, NoImage) }
            ELSE IF g.val > 1
            THEN Drain(cam, last, <<GetEv(cam.idx, "ok", g.val)>>)
            ELSE { FinalRead(cam, last, <<GetEv(cam.idx, "ok", g.val)>>, rd)
                   : rd \in ReadOutcomes }
          : g \in GetOutcomes }

\* a get_webcam_frame without the "if not is_running" test
PollResults_ignores_running(running, cam, last) ==
    IF cam = NoCamera
    THEN { OpResult(create_error_image(NotInitializedMsg), last, FALSE, <<>>, NoImage) }
    ELSE PollHeld(cam, last)

PollResults(running, cam, last) ==
    IF ~running THEN { OpResult(last, last, FALSE, <<>>, NoImage) }
    ELSE IF cam = NoCamera
    THEN { OpResult(create_error_image(NotInitializedMsg), last, FALSE, <<>>, NoImage) }
    ELSE PollHeld(cam, last)

get_webcam_frame ==
    \E res \in PollResults(is_running, camera, last_frame) :
        /\ last_frame' = res.last_frame
        /\ ret' = res.ret
        /\ raised' = res.raised
        /\ log' = res.log
        /\ delivered' = res.delivered
        /\ op' = "poll"
        /\ avail' = <<>>
        /\ init_ret' = "none"
        /\ UNCHANGED <<camera, is_running, error_message, started, acquired>>
        /\ UNCHANGED other_vars

(* ------------------------ check_camera_permissions ---------------------- *)
\* a probe that records the index whatever the read returned
Recorded_always(found, i, r) == Append(found, i)

\* lines 188-189: if ret: available_cameras.append(i)
Recorded(found, i, r) == IF r = "ok" THEN Append(found, i) ELSE found

\* the for loop of lines 180-190 from index i on; found is available_cameras,
\* lg the accesses so far; any exception makes the function return []
RECURSIVE ListFrom(_, _, _)
ListFrom(i, found, lg) ==
    IF i >= NumProbed
    THEN { [avail |-> found, log |-> lg] }
    ELSE LET o  == lg \o <<OpenEv(i, "ok")>>
             io == o \o <<IsOpenedEv(i, "true")>>
         IN  { [avail |-> <<>>, log |-> lg \o <<OpenEv(i, "raise")>>],
               [avail |-> <<>>, log |-> o \o <<IsOpenedEv(i, "raise")>>],
               [avail |-> <<>>, log |-> io \o <<ReadEv(i, "raise")>>] }
             \* not opened: nothing more is done with the handle
             \cup ListFrom(i + 1, found, o \o <<IsOpenedEv(i, "false")>>)
             \* opened: one read ("ok" when ret is true), the index is recorded, release
             \cup UNION { LET rdl == io \o <<ReadEv(i, r)>>
                              fnd == Recorded(found, i, r)
                          IN  { [avail |-> <<>>,
                                 log |-> rdl \o <<ReleaseEv(i, "raise")>>] }
                              \cup ListFrom(i + 1, fnd,
                                            rdl \o <<ReleaseEv(i, "ok")>>)
                          : r \in {"ok", "fail"} }

check_camera_permissions ==
    \E res \in ListFrom(0, <<>>, <<>>) :
        /\ avail' = res.avail
        /\ log' = res.log
        /\ ret' = NoImage
        /\ raised' = FALSE
        /\ delivered' = NoImage
        /\ op' = "list"
        /\ init_ret' = "none"
        /\ UNCHANGED <<camera, is_running, last_frame, error_message,
                       started, acquired>>
        /\ UNCHANGED other_vars

(* ----------------------------- specification ---------------------------- *)
\* the UI worker threads
Threads == 1..NumThreads

\* no call is in progress
ThreadsIdle ==
    /\ pc = [t \in Threads |-> "idle"]
    /\ camera_index = [t \in Threads |-> 1]
    /\ test_camera = [t \in Threads |-> -1]
    /\ cam_released = FALSE
    /\ adopted = [t \in Threads |-> FALSE]
    /\ stale = "none"

Init ==
    /\ camera = NoCamera
    /\ is_running = FALSE
    /\ last_frame = Placeholder
    /\ error_message = NoMessage
    /\ op = "init"
    /\ ret = NoImage
    /\ raised = FALSE
    /\ avail = <<>>
    /\ log = <<>>
    /\ init_ret = "none"
    /\ delivered = NoImage
    /\ started = FALSE
    /\ acquired = FALSE
    /\ arg_text = <<>>
    /\ error_image = NoImage
    /\ ThreadsIdle

Next ==
    \/ start_webcam
    \/ stop_webcam
    \/ get_webcam_frame
    \/ check_camera_permissions

Spec == Init /\ [][Next]_vars

(* ------------------- create_error_image on its own ---------------------- *)
\* the characters of the texts
Chars == {"a", "\n"}

\* the texts of at most MaxChars characters
Texts == UNION { [1..n -> Chars] : n \in 0..MaxChars }

\* a session just constructed, and a text about to be rendered
RenderInit ==
    /\ camera = NoCamera
    /\ is_running = FALSE
    /\ last_frame = Placeholder
    /\ error_message = NoMessage
    /\ op = "init"
    /\ ret = NoImage
    /\ raised = FALSE
    /\ avail = <<>>
    /\ log = <<>>
    /\ init_ret = "none"
    /\ delivered = NoImage
    /\ started = FALSE
    /\ acquired = FALSE
    /\ arg_text \in Texts
    /\ error_image = NoImage
    /\ ThreadsIdle

\* one call create_error_image(arg_text)
render ==
    /\ error_image' = create_error_image(SplitLines(arg_text))
    /\ op' = "render"
    /\ UNCHANGED <<camera, is_running, last_frame, error_message,
                   ret, raised, avail, log, delivered, init_ret,
                   started, acquired, arg_text>>
    /\ UNCHANGED conc_vars

RenderNext == render

SpecRender == RenderInit /\ [][RenderNext]_vars

(* ------------- overlapping calls, one statement at a time --------------- *)
\* The UI runs each handler on a worker thread and main.py takes no lock, so
\* the statements of two calls interleave.  A step below is one statement (or
\* one run of statements on locals); every use of `camera` reads the global
\* again.  The device is quiet here: no call raises, a probe works or does
\* not, a read of a live handle gives a frame or fails, a released handle
\* reads as failed and reports isOpened() false.

\* thread t moves to line l
Goto(t, l) == pc' = [pc EXCEPT ![t] = l]

\* thread t returns from its call; its locals are gone
Leave(t) ==
    /\ pc' = [pc EXCEPT ![t] = "idle"]
    /\ camera_index' = [camera_index EXCEPT ![t] = 1]
    /\ test_camera' = [test_camera EXCEPT ![t] = -1]
    /\ adopted' = [adopted EXCEPT ![t] = FALSE]

\* lines 286-305: a timer tick or a button click starts a handler on thread t
call_handler(t) ==
    /\ pc[t] = "idle"
    /\ \E l \in {"start_97", "stop_127", "poll_147"} : Goto(t, l)
    /\ UNCHANGED <<camera, is_running, last_frame, error_message, camera_index,
                   test_camera, cam_released, adopted, stale>>
    /\ UNCHANGED <<call_vars, render_vars>>

\* line 97: is_running = True
start_l97(t) ==
    /\ pc[t] = "start_97"
    /\ is_running' = TRUE
    /\ Goto(t, "init_45")
    /\ UNCHANGED <<camera, last_frame, error_message, camera_index,
                   test_camera, cam_released, adopted, stale>>
    /\ UNCHANGED <<call_vars, render_vars>>

\* line 45: if camera is None
init_l45(t) ==
    /\ pc[t] = "init_45"
    /\ Goto(t, IF camera = NoCamera THEN "init_47" ELSE "init_91")
    /\ UNCHANGED <<camera, is_running, last_frame, error_message, camera_index,
                   test_camera, cam_released, adopted, stale>>
    /\ UNCHANGED <<call_vars, render_vars>>

\* lines 47-58 and 70-75: one turn of the probe loop; the index opens and
\* yields a frame, or test_camera is released and the loop goes on
init_l47(t) ==
    /\ pc[t] = "init_47"
    /\ \/ /\ test_camera' = [test_camera EXCEPT ![t] = CameraIndices[camera_index[t]]]
          /\ Goto(t, "init_59")
          /\ UNCHANGED camera_index
       \/ /\ camera_index[t] < Len(CameraIndices)
          /\ camera_index' = [camera_index EXCEPT ![t] = @ + 1]
          /\ UNCHANGED <<pc, test_camera>>
       \/ /\ camera_index[t] = Len(CameraIndices)
          /\ Goto(t, "init_78")
          /\ UNCHANGED <<camera_index, test_camera>>
    /\ UNCHANGED <<camera, is_running, last_frame, error_message,
                   cam_released, adopted, stale>>
    /\ UNCHANGED <<call_vars, render_vars>>

\* line 59: camera = test_camera
init_l59(t) ==
    /\ pc[t] = "init_59"
    /\ camera' = [idx |-> test_camera[t], cfg |-> <<>>]
    /\ cam_released' = FALSE
    /\ adopted' = [adopted EXCEPT ![t] = TRUE]
    /\ Goto(t, "init_63")
    /\ UNCHANGED <<is_running, last_frame, error_message, camera_index,
                   test_camera, stale>>
    /\ UNCHANGED <<call_vars, render_vars>>

\* lines 63-69: camera.set(...) four times on the global, error_message =
\* None, return True; on None the attribute error is caught at line 86 and
\* start_webcam returns its error image
init_l63(t) ==
    /\ pc[t] = "init_63"
    /\ IF camera = NoCamera
       THEN /\ error_message' = InitErrorMsg
            /\ Leave(t)
            /\ UNCHANGED camera
       ELSE /\ camera' = [camera EXCEPT !.cfg = Config]
            /\ error_message' = NoMessage
            /\ Goto(t, "start_107")
            /\ UNCHANGED <<camera_index, test_camera, adopted>>
    /\ UNCHANGED <<is_running, last_frame, cam_released, stale>>
    /\ UNCHANGED <<call_vars, render_vars>>

\* lines 78-84: no index worked
init_l78(t) ==
    /\ pc[t] = "init_78"
    /\ error_message' = NoWorkingCamera
    /\ Leave(t)
    /\ UNCHANGED <<camera, is_running, last_frame, cam_released, stale>>
    /\ UNCHANGED <<call_vars, render_vars>>

\* line 91: return camera is not None and camera.isOpened()
init_l91(t) ==
    /\ pc[t] = "init_91"
    /\ IF camera # NoCamera /\ ~cam_released
       THEN Goto(t, "start_107") /\ UNCHANGED <<camera_index, test_camera, adopted>>
       ELSE Leave(t)
    /\ UNCHANGED <<camera, is_running, last_frame, error_message,
                   cam_released, stale>>
    /\ UNCHANGED <<call_vars, render_vars>>

\* what a read of the camera global finds
Found == IF camera = NoCamera THEN "cleared"
         ELSE IF cam_released THEN "released" ELSE "none"

\* camera.read() on the global, and last_frame = frame when it gives one
ReadGlobal ==
    /\ stale' = Found
    /\ \/ Found = "none" /\ \E f \in DeviceFrames : last_frame' = cvtColor(f)
       \/ UNCHANGED last_frame

\* lines 107-123: the first read of start_webcam
start_l107(t) ==
    /\ pc[t] = "start_107"
    /\ ReadGlobal
    /\ Leave(t)
    /\ UNCHANGED <<camera, is_running, error_message, cam_released>>
    /\ UNCHANGED <<call_vars, render_vars>>

\* line 127: is_running = False
stop_l127(t) ==
    /\ pc[t] = "stop_127"
    /\ is_running' = FALSE
    /\ Goto(t, "stop_130")
    /\ UNCHANGED <<camera, last_frame, error_message, camera_index,
                   test_camera, cam_released, adopted, stale>>
    /\ UNCHANGED <<call_vars, render_vars>>

\* line 130: if camera is not None (else line 141, return last_frame)
stop_l130(t) ==
    /\ pc[t] = "stop_130"
    /\ IF camera # NoCamera
       THEN Goto(t, "stop_132") /\ UNCHANGED <<camera_index, test_camera, adopted>>
       ELSE Leave(t)
    /\ UNCHANGED <<camera, is_running, last_frame, error_message,
                   cam_released, stale>>
    /\ UNCHANGED <<call_vars, render_vars>>

\* line 132: camera.release() (on None the attribute error is caught)
stop_l132(t) ==
    /\ pc[t] = "stop_132"
    /\ cam_released' = (camera # NoCamera)
    /\ Goto(t, "stop_139")
    /\ UNCHANGED <<camera, is_running, last_frame, error_message, camera_index,
                   test_camera, adopted, stale>>
    /\ UNCHANGED <<call_vars, render_vars>>

\* lines 139-141: camera = None, return last_frame
stop_l139(t) ==
    /\ pc[t] = "stop_139"
    /\ camera' = NoCamera
    /\ cam_released' = FALSE
    /\ Leave(t)
    /\ UNCHANGED <<is_running, last_frame, error_message, stale>>
    /\ UNCHANGED <<call_vars, render_vars>>

\* lines 147-148: if not is_running: return last_frame
poll_l147(t) ==
    /\ pc[t] = "poll_147"
    /\ IF is_running
       THEN Goto(t, "poll_150") /\ UNCHANGED <<camera_index, test_camera, adopted>>
       ELSE Leave(t)
    /\ UNCHANGED <<camera, is_running, last_frame, error_message,
                   cam_released, stale>>
    /\ UNCHANGED <<call_vars, render_vars>>

\* lines 150-152: if camera is None: return the error image
poll_l150(t) ==
    /\ pc[t] = "poll_150"
    /\ IF camera # NoCamera
       THEN Goto(t, "poll_155") /\ UNCHANGED <<camera_index, test_camera, adopted>>
       ELSE Leave(t)
    /\ UNCHANGED <<camera, is_running, last_frame, error_message,
                   cam_released, stale>>
    /\ UNCHANGED <<call_vars, render_vars>>

\* lines 154-173: the drain and the read of get_webcam_frame
poll_l155(t) ==
    /\ pc[t] = "poll_155"
    /\ ReadGlobal
    /\ Leave(t)
    /\ UNCHANGED <<camera, is_running, error_message, cam_released>>
    /\ UNCHANGED <<call_vars, render_vars>>

ConcNext ==
    \E t \in Threads :
        \/ call_handler(t)
        \/ start_l97(t) \/ init_l45(t) \/ init_l47(t) \/ init_l59(t)
        \/ init_l63(t) \/ init_l78(t) \/ init_l91(t) \/ start_l107(t)
        \/ stop_l127(t) \/ stop_l130(t) \/ stop_l132(t) \/ stop_l139(t)
        \/ poll_l147(t) \/ poll_l150(t) \/ poll_l155(t)

SpecConc == Init /\ [][ConcNext]_vars

(* ------------------------- reading an access log ------------------------ *)
Last(lg) == lg[Len(lg)]
\* some call of the log is a call of kind c
HasCall(lg, c) == \E k \in DOMAIN lg : lg[k].call = c
\* the operation was one that returns an image to the UI
ReturnsImage == op \in {"start", "stop", "poll"}
\* a well-formed 640x480x3 buffer
WellFormed(img) ==
    /\ img.kind # "none"
    /\ img.w = ImgWidth /\ img.h = ImgHeight /\ img.ch = ImgChannels

(* -------------------------------- claims -------------------------------- *)
\* C1: every start(), stop() and poll() call returns a well-formed 640x480x3
\* image, never a null or empty one, whatever the device does.
C1_ReturnedImageWellFormed == ReturnsImage => WellFormed(ret)

\* C2: between operations, a camera handle is held if and only if the session
\* is Running and the most recent open attempt adopted a handle.
C2_HandleIffRunningAndAcquired ==
    (camera # NoCamera) <=> (is_running /\ acquired)

\* C2 witness: a handle is held after a poll of a running session
C2_Witness == camera # NoCamera /\ is_running /\ acquired /\ op = "poll"

\* C3 (as stated): a start() that follows a start() with no stop() between
\* them opens no device, whatever the first start() did.
C3_SecondStartNeverOpens ==
    [][(started /\ op' = "start") => ~HasCall(log', "open")]_vars

\* C3 (amended): a start() that follows a start() with no stop() between them
\* opens no device exactly when the earlier start() left a handle held; when
\* no handle is held it runs the acquisition again.
C3_SecondStartOpensIffNoHandle ==
    [][(started /\ op' = "start")
         => ((camera # NoCamera) <=> ~HasCall(log', "open"))]_vars

\* C3 witness: a start() that found the handle held and only asked isOpened()
C3_Witness ==
    /\ op = "start" /\ camera # NoCamera
    /\ log # <<>> /\ log[1].call = "isOpened" /\ ~HasCall(log, "open")

(* ---- check_camera_permissions and the error boundary ---- *)
\* C4: when listAvailableDevices(3) returns, every handle it created has been
\* released, whatever each probe did.
C4_ListReleasesEveryHandle ==
    op = "list" =>
        \A k \in DOMAIN log :
            (log[k].call = "open" /\ log[k].res = "ok")
                => \E j \in DOMAIN log :
                       j > k /\ log[j] = ReleaseEv(log[k].idx, "ok")

\* C5: no operation raises to its caller, and start, stop and poll still
\* return an image, whatever device call fails or raises.
C5_NoOperationRaises ==
    /\ ~raised
    /\ ReturnsImage => ret.kind # "none"

\* C6: a poll() right after stop(), and every poll() while Stopped, makes no
\* device call, returns the buffer stop() returned (last_frame) and leaves the
\* four session fields unchanged.
C6_StoppedPollIsPure ==
    [][((op = "stop" \/ ~is_running) /\ op' = "poll")
         => /\ log' = <<>>
            /\ ret' = last_frame
            /\ op = "stop" => ret' = ret
            /\ UNCHANGED <<is_running, camera, last_frame, error_message>>]_vars

\* C6 witness: a poll of a stopped session handed back the retained frame
C6_Witness ==
    /\ op = "poll" /\ ~is_running /\ ~started
    /\ last_frame.kind = "frame" /\ ret = last_frame /\ log = <<>>

(* ---- device acquisition ---- *)
\* the operation was a start() that found no handle held
StartedWithoutHandle == op = "start" /\ log # <<>> /\ log[1].call = "open"

\* the probe of index i opened the device and read a frame from it
ProbeWorked(lg, i) ==
    \E k \in DOMAIN lg :
        /\ k + 2 <= Len(lg)
        /\ lg[k] = OpenEv(i, "ok")
        /\ lg[k + 1] = IsOpenedEv(i, "true")
        /\ lg[k + 2] = ReadEv(i, "ok")

\* the set() calls of a log, in order
SetCalls(lg) == SelectSeq(lg, LAMBDA e : e.call = "set")

\* some device call of the log raised
SomeRaise(lg) == \E k \in DOMAIN lg : lg[k].res = "raise"

\* C7: a start() with no handle held adopts the first index of 0, 1, 2 that
\* opens and yields a frame, opens no later index, and applies width 640,
\* height 480, fps 30, buffer depth 1 exactly once to the adopted handle.
C7_FirstWorkingIndexConfiguredOnce ==
    StartedWithoutHandle =>
        \A i \in 0..2 :
            ProbeWorked(log, i) =>
                /\ camera.idx = i
                /\ \A j \in 0..2 : j < i => ~ProbeWorked(log, j)
                /\ \A k \in DOMAIN log : log[k].call = "open" => log[k].idx <= i
                /\ camera.cfg = << [prop |-> "FRAME_WIDTH", val |-> 640],
                                   [prop |-> "FRAME_HEIGHT", val |-> 480],
                                   [prop |-> "FPS", val |-> 30],
                                   [prop |-> "BUFFERSIZE", val |-> 1] >>
                /\ Len(SetCalls(log)) = 4
                /\ \A k \in 1..Len(SetCalls(log)) :
                       /\ SetCalls(log)[k].idx = i
                       /\ SetCalls(log)[k].res = "ok"

\* the four causes the diagnostic names
FourCauses ==
    { <<"1. Camera is being used by another application">>,
      <<"2. Camera drivers not installed">>,
      <<"3. Camera permissions denied">>,
      <<"4. No camera connected">> }

\* the lines drawn on an image
DrawnLines(img) == { img.text[k].line : k \in DOMAIN img.text }

\* start() reported the multi-cause diagnostic, all four causes drawn
ReportsFourCauses ==
    /\ error_message # NoMessage
    /\ FourCauses \subseteq { error_message[k] : k \in DOMAIN error_message }
    /\ ret.kind = "error"
    /\ FourCauses \subseteq DrawnLines(ret)
    /\ Len(ret.text) <= 7

\* C8 (as stated): when no index of 0, 1, 2 both opens and yields a frame,
\* start() sets the multi-cause diagnostic and returns an error image whose
\* text contains all four causes.
C8_NoWorkingIndexReportsFourCauses ==
    (StartedWithoutHandle /\ \A i \in 0..2 : ~ProbeWorked(log, i))
        => ReportsFourCauses

\* C8 (amended): when every index of 0, 1, 2 fails to open or fails its probe
\* read and no device call raises, start() sets the multi-cause diagnostic and
\* returns an error image whose text contains all four causes; when a device
\* call raises before an index is adopted, the diagnostic and the image carry
\* the initialization-error text instead.
C8_QuietFailureReportsFourCauses ==
    (StartedWithoutHandle /\ \A i \in 0..2 : ~ProbeWorked(log, i))
        => IF SomeRaise(log)
           THEN /\ error_message[1][1] = "Camera initialization error: "
                /\ ret.kind = "error"
                /\ DrawnLines(ret) = { error_message[k] : k \in DOMAIN error_message }
           ELSE ReportsFourCauses

\* C8 witness: all three indices were probed, none worked, none raised
C8_Witness ==
    /\ StartedWithoutHandle /\ ~SomeRaise(log)
    /\ \A i \in 0..2 : ~ProbeWorked(log, i)
    /\ \A i \in 0..2 : \E k \in DOMAIN log : log[k] = OpenEv(i, "ok")
    /\ ReportsFourCauses /\ camera = NoCamera /\ is_running

(* ---- polling ---- *)
\* the image of a failed read
FailedReadImage ==
    [kind |-> "error", w |-> 640, h |-> 480, ch |-> 3, order |-> "RGB", px |-> 0,
     text |-> << [line |-> <<"Failed to read frame from camera">>,
                  x |-> 20, y |-> 50] >>]

\* the image of a session that is running without a handle
NotInitializedImage ==
    [kind |-> "error", w |-> 640, h |-> 480, ch |-> 3, order |-> "RGB", px |-> 0,
     text |-> << [line |-> <<"Camera not initialized">>, x |-> 20, y |-> 50] >>]

\* C9: a poll() of a running session whose read on the held handle fails
\* returns the 'failed to read frame' image and leaves last_frame, the handle
\* and the Running state alone; the next poll() whose read succeeds returns
\* the new frame and stores it in last_frame, with no start() and no open.
C9_ReadFailureIsTransient ==
    [][/\ (op' = "poll" /\ is_running /\ camera # NoCamera
             /\ log' # <<>> /\ Last(log') = ReadEv(camera.idx, "fail"))
          => /\ ret' = FailedReadImage
             /\ last_frame' = last_frame
             /\ camera' = camera
             /\ is_running'
       /\ (op = "poll" /\ ret = FailedReadImage /\ op' = "poll"
             /\ log' # <<>> /\ Last(log') = ReadEv(camera.idx, "ok"))
          => /\ delivered' \in DeviceFrames
             /\ ret' = [delivered' EXCEPT !.order = "RGB"]
             /\ last_frame' = ret'
             /\ camera' = camera
             /\ is_running'
             /\ ~HasCall(log', "open")]_vars

\* C9 witness: a poll failed to read while an earlier frame was retained
C9_Witness ==
    /\ op = "poll" /\ is_running /\ camera # NoCamera
    /\ Last(log) = ReadEv(camera.idx, "fail")
    /\ ret = FailedReadImage /\ last_frame.kind = "frame"

\* C10: after a start() whose acquisition fails the session is Running with
\* no handle held; every poll() of that state returns the 'not initialized'
\* image and opens no device; poll and stop never open a device.
C10_FailedStartLeavesNoHandle ==
    [][/\ (op' = "start" /\ init_ret' = "False")
          => (is_running' /\ camera' = NoCamera)
       /\ (is_running /\ camera = NoCamera /\ op' = "poll")
          => (ret' = NotInitializedImage /\ log' = <<>>)
       /\ op' \in {"poll", "stop"} => ~HasCall(log', "open")]_vars

(* ---- the diagnostic message, stop, and the first read of start ---- *)
\* the operation ended on a read of the held handle with result r
EndedOnRead(o, cam, lg, r) ==
    /\ o \in {"start", "poll"} /\ cam # NoCamera
    /\ lg # <<>> /\ Last(lg) = ReadEv(cam.idx, r)

\* the lines of a message
MessageLines(msg) == { msg[k] : k \in DOMAIN msg }

\* C11: error_message is absent after every successful initialization, set
\* after every failed one, and after a start() or poll() whose read of the
\* held handle fails or raises it is set and describes that failure (it is
\* the text of the error image handed back).
C11_DiagnosticTracksFailures ==
    /\ (op = "start" /\ init_ret = "True" /\ EndedOnRead(op, camera, log, "ok"))
          => error_message = NoMessage
    /\ (op = "start" /\ init_ret = "False") => error_message # NoMessage
    /\ (EndedOnRead(op, camera, log, "fail") \/ EndedOnRead(op, camera, log, "raise"))
          => /\ error_message # NoMessage
             /\ MessageLines(error_message) = DrawnLines(ret)

\* C12: stop() releases the held handle if there is one, leaves the session
\* Stopped with no handle (also when release() raises), leaves last_frame and
\* error_message alone, returns last_frame and does not raise.
C12_StopReleasesAndReturnsLastFrame ==
    [][op' = "stop"
         => /\ ~is_running' /\ camera' = NoCamera /\ ~raised'
            /\ last_frame' = last_frame /\ error_message' = error_message
            /\ ret' = last_frame
            /\ IF camera # NoCamera
               THEN /\ Len(log') = 1
                    /\ log'[1].call = "release" /\ log'[1].idx = camera.idx
               ELSE log' = <<>>]_vars

\* C12 witness: a stop whose release() raised, with a captured frame retained
C12_Witness ==
    /\ op = "stop" /\ camera = NoCamera /\ ~is_running
    /\ Len(log) = 1 /\ log[1].call = "release" /\ log[1].res = "raise"
    /\ ret = last_frame /\ ret.kind = "frame"

\* C13 (as stated): whenever start() ends with a handle adopted or already
\* held, the session is Running, one frame was read from the handle, stored
\* in last_frame and returned.
C13_StartWithHandleReturnsFrame ==
    (op = "start" /\ camera # NoCamera)
        => /\ is_running
           /\ EndedOnRead(op, camera, log, "ok")
           /\ delivered \in DeviceFrames
           /\ ret = [delivered EXCEPT !.order = "RGB"]
           /\ last_frame = ret

\* C13 (amended): start() always leaves the session Running.  When
\* initialize_camera reports success it reads exactly one frame from the
\* handle; a read that yields a frame is colour-converted, stored in
\* last_frame and returned; a read that fails or raises gives an error image
\* and leaves last_frame alone.  When initialize_camera reports failure or
\* raises - also with a handle adopted (a set() raised) or held (not opened) -
\* no frame is read and last_frame is left alone.
C13_StartReadsOnceAfterSuccessfulInit ==
    [][op' = "start"
         => /\ is_running'
            /\ IF init_ret' = "True"
               THEN /\ camera' # NoCamera
                    /\ log' # <<>> /\ Last(log').call = "read"
                    /\ Last(log').idx = camera'.idx
                    /\ Len(log') > 1 /\ log'[Len(log') - 1].call \in {"set", "isOpened"}
                    /\ IF Last(log').res = "ok"
                       THEN /\ delivered' \in DeviceFrames
                            /\ ret' = [delivered' EXCEPT !.order = "RGB"]
                            /\ last_frame' = ret'
                       ELSE /\ ret'.kind = "error"
                            /\ last_frame' = last_frame
               ELSE /\ ret'.kind \in {"error", "none"}
                    /\ last_frame' = last_frame
                    /\ log' # <<>>
                    /\ Last(log').call = "read"
                         => (Last(log').res = "raise" /\ camera' = NoCamera)]_vars

\* C13 witness: a start() adopted a handle, read a frame, stored and returned it
C13_Witness ==
    /\ op = "start" /\ init_ret = "True" /\ is_running
    /\ log[1].call = "open" /\ EndedOnRead(op, camera, log, "ok")
    /\ ret.kind = "frame" /\ last_frame = ret

\* C14 (as stated): a poll() of a running session whose read of the held
\* handle fails returns the retained last_frame.
C14_FailedPollReturnsLastFrame ==
    [][(op' = "poll" /\ is_running /\ EndedOnRead(op', camera, log', "fail"))
         => ret' = last_frame]_vars

\* C14 (amended): last_frame is what the caller gets from stop() and from a
\* poll() of a stopped session; a poll() of a running session whose read of
\* the held handle fails returns the 'failed to read frame' error image, not
\* last_frame, while last_frame itself is retained unchanged.
C14_LastFrameOnlyWhenStopped ==
    [][/\ (op' = "stop" \/ (op' = "poll" /\ ~is_running)) => ret' = last_frame
       /\ (op' = "poll" /\ is_running /\ EndedOnRead(op', camera, log', "fail"))
          => /\ ret' # last_frame
             /\ ret'.kind = "error"
             /\ DrawnLines(ret') = { <<"Failed to read frame from camera">> }
             /\ last_frame' = last_frame]_vars

\* C14 witness: a failed poll handed back an error image while a captured
\* frame of another size stayed in last_frame
C14_Witness ==
    /\ op = "poll" /\ is_running /\ EndedOnRead(op, camera, log, "fail")
    /\ ret.kind = "error" /\ last_frame.kind = "frame" /\ last_frame.w = 1280

\* the indices whose probe opened and whose one read returned ret true
OpenedAndRead(lg) ==
    { i \in 0..2 : \E k \in DOMAIN lg :
          /\ k < Len(lg)
          /\ lg[k] = IsOpenedEv(i, "true")
          /\ lg[k + 1] = ReadEv(i, "ok") }

\* C15: listAvailableDevices(3) returns, ascending and without duplicates,
\* exactly the indices of 0..2 whose open and whose one read succeed; the
\* empty sequence when there is none, and the empty sequence when a probe
\* raises.
C15_ListReturnsWorkingIndices ==
    op = "list" =>
        /\ \A k \in DOMAIN avail : \A j \in DOMAIN avail : k < j => avail[k] < avail[j]
        /\ IF SomeRaise(log)
           THEN avail = <<>>
           ELSE /\ { avail[k] : k \in DOMAIN avail } = OpenedAndRead(log)
                /\ \A i \in 0..2 : Cardinality({ k \in DOMAIN log : log[k] = OpenEv(i, "ok") }) = 1

\* C15 witness: indices 0 and 2 work, index 1 does not
C15_Witness == op = "list" /\ avail = <<0, 2>> /\ ~SomeRaise(log)

\* C16: after any start(), stop() or poll(), every handle the operation
\* opened is the held camera or has been released, and stop() has released
\* the handle it dropped: no reference to an unreleased handle is lost.
C16_NoHandleDroppedUnreleased ==
    ReturnsImage =>
        /\ \A k \in DOMAIN log :
               (log[k].call = "open" /\ log[k].res = "ok")
                   => \/ camera # NoCamera /\ camera.idx = log[k].idx
                      \/ \E j \in DOMAIN log :
                             j > k /\ log[j] = ReleaseEv(log[k].idx, "ok")
        /\ op = "stop" => \A k \in DOMAIN log : log[k].res = "ok"

(* ---- the buffer drain ---- *)
\* the operation was a poll() of a running session with a handle held
PollOnHeld == op = "poll" /\ is_running /\ camera # NoCamera

\* the positions of the calls of kind c in a log
CallsAt(lg, c) == { k \in DOMAIN lg : lg[k].call = c }

\* the number of read() calls of a log
Reads(lg) == Cardinality(CallsAt(lg, "read"))

\* some get() of the log returned a depth
DepthReported(lg) == \E k \in CallsAt(lg, "get") : lg[k].res = "ok"

\* the depth returned by the latest get() of the log that returned
ReportedDepth(lg) ==
    LET ks == { k \in CallsAt(lg, "get") : lg[k].res = "ok" }
        k  == CHOOSE m \in ks : \A n \in ks : n <= m
    IN  lg[k].val

\* max(d, 1)
AtLeastOne(d) == IF d > 1 THEN d ELSE 1

\* C18 (as stated): a poll() of a running session with a handle held whose
\* device reports buffer depth d performs exactly max(d, 1) reads, discards
\* all but the last and uses the last read as the result.
C18_PollReadsDepthFrames ==
    (PollOnHeld /\ DepthReported(log))
        => /\ Reads(log) = AtLeastOne(ReportedDepth(log))
           /\ Last(log).call = "read"

\* C18 (amended): when no device call raises, the poll performs exactly
\* max(d, 1) reads for the depth d last reported, every read but the last is
\* discarded, and the result is the last read's frame or the 'failed to read'
\* image; when a get() or a read() raises the poll stops at that call with
\* at most max(d, 1) reads done (none when no depth was reported) and hands
\* back an error image.  The number of reads never exceeds the largest depth.
C18_DrainBoundedByDepth ==
    PollOnHeld =>
        /\ Reads(log) <= AtLeastOne(MaxDepth)
        /\ ~SomeRaise(log) =>
              /\ DepthReported(log)
              /\ Reads(log) = AtLeastOne(ReportedDepth(log))
              /\ Last(log).call = "read"
              /\ \A k \in CallsAt(log, "read") :
                    (k < Len(log)) <=> (log[k].res = "discarded")
              /\ \A k \in CallsAt(log, "get") : k <= 2
              /\ \/ Last(log).res = "ok" /\ ret = cvtColor(delivered)
                 \/ Last(log).res = "fail" /\ ret = FailedReadImage
        /\ SomeRaise(log) =>
              /\ Last(log).res = "raise"
              /\ \A k \in DOMAIN log : k < Len(log) => log[k].res # "raise"
              /\ ret.kind = "error"
              /\ IF DepthReported(log)
                 THEN Reads(log) <= AtLeastOne(ReportedDepth(log))
                 ELSE Reads(log) = 0

\* C18 witness: the device reported depth 3 and the poll read three frames,
\* discarding two and returning the third
C18_Witness ==
    /\ PollOnHeld /\ ~SomeRaise(log)
    /\ DepthReported(log) /\ ReportedDepth(log) = 3
    /\ Reads(log) = 3 /\ ret.kind = "frame"

(* ---- last_frame ---- *)
\* C20: last_frame starts as the placeholder and is never null; it is only
\* ever the placeholder or the colour-converted frame of a successful read
\* of the held handle by start() or poll(), never an error image; every such
\* read stores its frame, and no other step (stop, a failed start, a failed
\* poll, the device list) changes it.
C20_LastFrameOnlyFromSuccessfulRead ==
    /\ last_frame = Placeholder
    /\ [][/\ last_frame' # NoImage
          /\ last_frame'.kind \in {"placeholder", "frame"}
          /\ last_frame'.kind = "placeholder" => last_frame' = Placeholder
          /\ EndedOnRead(op', camera', log', "ok")
                => (delivered' \in DeviceFrames /\ last_frame' = cvtColor(delivered'))
          /\ ~EndedOnRead(op', camera', log', "ok") => last_frame' = last_frame
          /\ op' \in {"stop", "list"} => last_frame' = last_frame]_vars

\* C20 witness: a poll whose read failed handed back an error image and left
\* the frame captured earlier in last_frame
C20_Witness ==
    /\ op = "poll" /\ EndedOnRead(op, camera, log, "fail")
    /\ ret.kind = "error" /\ last_frame.kind = "frame" /\ last_frame.w = 640

(* ---- error image rendering ---- *)
\* the number of lines of a text: one more than its newlines
NumLines(chars) == 1 + Cardinality({ k \in DOMAIN chars : chars[k] = "\n" })

\* the characters of line i (from 0) of a text: those after its i-th
\* newline and before the next one
LineOf(chars, i) ==
    LET nl(k) == Cardinality({ j \in 1..k : chars[j] = "\n" })
    IN  SelectSeq([k \in DOMAIN chars |->
                       IF chars[k] # "\n" /\ nl(k) = i THEN chars[k] ELSE "skip"],
                  LAMBDA c : c # "skip")

\* min(n, 7)
AtMostSeven(n) == IF n < 7 THEN n ELSE 7

\* C19: create_error_image draws, for a text of n lines, exactly min(n, 7)
\* lines on a 640x480x3 image, line i (from 0) at x = 20 and y = 50 + 40*i,
\* and nothing of the 8th line or later; the image depends on the text
\* alone, and the call makes no device access and changes no session field.
C19_RendersFirstSevenLines ==
    [][op' = "render" =>
         /\ WellFormed(error_image')
         /\ Len(error_image'.text) = AtMostSeven(NumLines(arg_text))
         /\ \A i \in 0..(Len(error_image'.text) - 1) :
               /\ error_image'.text[i + 1].line = LineOf(arg_text, i)
               /\ error_image'.text[i + 1].x = 20
               /\ error_image'.text[i + 1].y = 50 + 40 * i
         /\ error_image' = create_error_image(SplitLines(arg_text))
         /\ log' = log
         /\ UNCHANGED <<camera, is_running, last_frame, error_message>>]_vars

\* C19 witness: a text of eight lines was rendered as its first seven
C19_Witness ==
    /\ op = "render"
    /\ NumLines(arg_text) = 8
    /\ Len(error_image.text) = 7
    /\ error_image.text[7].y = 290

(* ---- overlapping calls ---- *)
\* thread t is inside start_webcam
InStart(t) ==
    pc[t] \in {"start_97", "init_45", "init_47", "init_59", "init_63",
               "init_78", "init_91", "start_107"}

\* the latest read found the handle released by another call
ReadOfReleased == stale = "released"
\* the latest read found the handle cleared by another call
ReadOfCleared == stale = "cleared"
\* two start() calls in progress have each assigned the camera global
BothAdopted ==
    \E s, t \in Threads :
        s # t /\ InStart(s) /\ InStart(t) /\ adopted[s] /\ adopted[t]

\* C17: when calls overlap, no start() or poll() reads from a handle that
\* another call has released or cleared, and no two overlapping start()
\* calls both open and adopt a device.
C17_OverlappingCallsSerialized ==
    ~ReadOfReleased /\ ~ReadOfCleared /\ ~BothAdopted

====
